---------------------------- MODULE Spec2Model ----------------------------
(***************************************************************************)
(* FleaHive.py: clean / summarize / tag and the metrics of the run,        *)
(* modelled on texts that are sequences of one-character strings.          *)
(***************************************************************************)
EXTENDS Integers, Sequences, FiniteSets, TLC

(***************************************************************************)
(* Characters.  A text is a sequence of one-character strings.             *)
(***************************************************************************)
UpperSeq == <<"A","B","C","D","E","F","G","H","I","J","K","L","M",
              "N","O","P","Q","R","S","T","U","V","W","X","Y","Z">>
LowerSeq == <<"a","b","c","d","e","f","g","h","i","j","k","l","m",
              "n","o","p","q","r","s","t","u","v","w","x","y","z">>
DigitSeq == <<"0","1","2","3","4","5","6","7","8","9">>
\* the other ASCII characters, each with its code point
Punct == << <<"\t", 9>>, <<"\n", 10>>, <<" ", 32>>, <<"!", 33>>, <<"#", 35>>,
            <<"%", 37>>, <<"(", 40>>, <<")", 41>>, <<"*", 42>>, <<",", 44>>,
            <<"-", 45>>, <<".", 46>>, <<"/", 47>>, <<":", 58>>, <<">", 62>>,
            <<"?", 63>>, <<"@", 64>>, <<"[", 91>>, <<"]", 93>>, <<"_", 95>>,
            <<"U+0060", 96>>, <<"{", 123>>, <<"}", 125>>, <<"~", 126>>,
            <<"U+2026", 8230>> >>
\* two characters that cannot be spelled inside a string here: the backtick
\* (U+0060) and the horizontal ellipsis (U+2026); each is one character
Backtick == "U+0060"
Ellipsis == "U+2026"

Range(s) == {s[i] : i \in 1..Len(s)}
Min(S) == CHOOSE x \in S : \A y \in S : x <= y
IndexIn(s, c) == CHOOSE i \in 1..Len(s) : s[i] = c

UpperSet == Range(UpperSeq)
LowerSet == Range(LowerSeq)
DigitSet == Range(DigitSeq)
WordSet == UpperSet \cup LowerSet \cup DigitSet \cup {"_"}
LowerOf == [c \in UpperSet |-> LowerSeq[IndexIn(UpperSeq, c)]]

IsUpper(c) == c \in UpperSet
IsLower(c) == c \in LowerSet
IsDigit(c) == c \in DigitSet
IsSpace(c) == c \in {" ", "\n", "\t"}
IsWord(c) == c \in WordSet

\* ord(c)
CodePoint(c) ==
    IF IsUpper(c) THEN 64 + IndexIn(UpperSeq, c)
    ELSE IF IsLower(c) THEN 96 + IndexIn(LowerSeq, c)
    ELSE IF IsDigit(c) THEN 47 + IndexIn(DigitSeq, c)
    ELSE (CHOOSE p \in Range(Punct) : p[1] = c)[2]

\* str.lower(), one character
LowerChar(c) == IF IsUpper(c) THEN LowerOf[c] ELSE c
\* a comprehension [k \in 1..n |-> e], as the tuple of its values
list(f) == <<>> \o f

\* str.lower()
lower(t) == list([i \in 1..Len(t) |-> LowerChar(t[i])])

\* the first index j >= i with t[j] = c, or 0
IndexFrom(t, i, c) ==
    LET S == {j \in i..Len(t) : t[j] = c} IN IF S = {} THEN 0 ELSE Min(S)

\* the first index j >= i where t[j] is not whitespace, or Len(t)+1
SkipSpace(t, i) ==
    LET S == {j \in i..Len(t) : ~IsSpace(t[j])} IN IF S = {} THEN Len(t) + 1 ELSE Min(S)

\* the first index j >= i where t[j] is whitespace, or Len(t)+1
SkipNonSpace(t, i) ==
    LET S == {j \in i..Len(t) : IsSpace(t[j])} IN IF S = {} THEN Len(t) + 1 ELSE Min(S)

\* the first index j >= i where t[j] is not a digit, or Len(t)+1
SkipDigits(t, i) ==
    LET S == {j \in i..Len(t) : ~IsDigit(t[j])} IN IF S = {} THEN Len(t) + 1 ELSE Min(S)

\* the literal lit stands in t at index i
MatchLit(t, i, lit) ==
    /\ i >= 1
    /\ i + Len(lit) - 1 <= Len(t)
    /\ \A k \in 1..Len(lit) : t[i + k - 1] = lit[k]

\* the same under re.I (lit is given in lower case)
MatchLitI(t, i, lit) ==
    /\ i >= 1
    /\ i + Len(lit) - 1 <= Len(t)
    /\ \A k \in 1..Len(lit) : LowerChar(t[i + k - 1]) = lit[k]

\* ^ under re.M
AtLineStart(t, i) == i = 1 \/ t[i - 1] = "\n"

\* str.strip()
strip(t) ==
    LET S == {j \in 1..Len(t) : ~IsSpace(t[j])}
    IN  IF S = {} THEN <<>>
        ELSE SubSeq(t, Min(S), CHOOSE x \in S : \A y \in S : y <= x)

(***************************************************************************)
(* clean(text): the regular expressions, one by one.  XEnd(t, i) is the    *)
(* index after the match of X that starts at i, or 0 when X does not match *)
(* at i; XSub(t, i) is re.sub from index i on: the text up to the leftmost  *)
(* match, its replacement, and the same again behind the match.            *)
(***************************************************************************)
Dashes == <<"-","-","-">>

\* (?m)^---[\s\S]+?---
FrontmatterEnd(t, i) ==
    IF AtLineStart(t, i) /\ MatchLit(t, i, Dashes)
    THEN LET S == {j \in (i + 4)..Len(t) : MatchLit(t, j, Dashes)}
         IN  IF S = {} THEN 0 ELSE Min(S) + 3
    ELSE 0

RECURSIVE FrontmatterSub(_, _)
FrontmatterSub(t, i) ==
    LET S == {j \in i..Len(t) : FrontmatterEnd(t, j) > 0}
    IN  IF S = {} THEN SubSeq(t, i, Len(t))
        ELSE SubSeq(t, i, Min(S) - 1)
             \o FrontmatterSub(t, FrontmatterEnd(t, Min(S)))

\* \[([^\]]+)\]\([^\)]+\) : the index of the "]" that closes the label, or 0
LinkLabelEnd(t, i) ==
    IF i <= Len(t) /\ t[i] = "["
    THEN LET j == IndexFrom(t, i + 1, "]")
         IN  IF j > i + 1 /\ j + 1 <= Len(t) /\ t[j + 1] = "(" THEN j ELSE 0
    ELSE 0

LinkEnd(t, i) ==
    LET j == LinkLabelEnd(t, i)
    IN  IF j = 0 THEN 0
        ELSE LET k == IndexFrom(t, j + 2, ")")
             IN  IF k > j + 2 THEN k + 1 ELSE 0

\* re.sub of the link by its group 1, the label
RECURSIVE LinkSub(_, _)
LinkSub(t, i) ==
    LET S == {j \in i..Len(t) : LinkEnd(t, j) > 0}
    IN  IF S = {} THEN SubSeq(t, i, Len(t))
        ELSE SubSeq(t, i, Min(S) - 1) \o SubSeq(t, Min(S) + 1, LinkLabelEnd(t, Min(S)) - 1)
             \o LinkSub(t, LinkEnd(t, Min(S)))

\* (?i)@article{[^}]+}
ArticleEnd(t, i) ==
    IF MatchLitI(t, i, <<"@","a","r","t","i","c","l","e","{">>)
    THEN LET k == IndexFrom(t, i + 9, "}")
         IN  IF k > i + 9 THEN k + 1 ELSE 0
    ELSE 0

\* (?i)https?://\S+
UrlEnd(t, i) ==
    IF MatchLitI(t, i, <<"h","t","t","p">>)
    THEN LET q == IF MatchLitI(t, i + 4, <<"s">>) THEN i + 5 ELSE i + 4
         IN  IF MatchLit(t, q, <<":","/","/">>) /\ SkipNonSpace(t, q + 3) > q + 3
             THEN SkipNonSpace(t, q + 3) ELSE 0
    ELSE 0

\* (?i)doi:\S+
DoiEnd(t, i) ==
    IF MatchLitI(t, i, <<"d","o","i",":">>) /\ SkipNonSpace(t, i + 4) > i + 4
    THEN SkipNonSpace(t, i + 4) ELSE 0

\* (?i)@article{[^}]+}|https?://\S+|doi:\S+
NoiseEnd(t, i) ==
    IF ArticleEnd(t, i) > 0 THEN ArticleEnd(t, i)
    ELSE IF UrlEnd(t, i) > 0 THEN UrlEnd(t, i)
    ELSE DoiEnd(t, i)

RECURSIVE NoiseSub(_, _)
NoiseSub(t, i) ==
    LET S == {j \in i..Len(t) : NoiseEnd(t, j) > 0}
    IN  IF S = {} THEN SubSeq(t, i, Len(t))
        ELSE SubSeq(t, i, Min(S) - 1)
             \o NoiseSub(t, NoiseEnd(t, Min(S)))

\* !\[.*?\]\([^\)]+\)
ImageEnd(t, i) ==
    IF MatchLit(t, i, <<"!","[">>)
    THEN LET S == {j \in (i + 2)..Len(t) :
                     /\ t[j] = "]"
                     /\ \A m \in (i + 2)..(j - 1) : t[m] # "\n"
                     /\ j + 1 <= Len(t) /\ t[j + 1] = "("
                     /\ IndexFrom(t, j + 2, ")") > j + 2}
         IN  IF S = {} THEN 0 ELSE IndexFrom(t, Min(S) + 2, ")") + 1
    ELSE 0

RECURSIVE ImageSub(_, _)
ImageSub(t, i) ==
    LET S == {j \in i..Len(t) : ImageEnd(t, j) > 0}
    IN  IF S = {} THEN SubSeq(t, i, Len(t))
        ELSE SubSeq(t, i, Min(S) - 1)
             \o ImageSub(t, ImageEnd(t, Min(S)))

\* re.sub of the markup characters by the empty string
IsMarkup(c) == c \in {"*", "#", ">", Backtick, "~"}
MarkupSub(t) == SelectSeq(t, LAMBDA c : ~IsMarkup(c))

\* ^Table\s*\d+.*|^Figure\s*\d+.* under re.M|re.I
CaptionTail(t, p) ==
    LET q == SkipSpace(t, p)
        r == SkipDigits(t, q)
    IN  IF r > q
        THEN (IF IndexFrom(t, r, "\n") = 0 THEN Len(t) + 1 ELSE IndexFrom(t, r, "\n"))
        ELSE 0

CaptionEnd(t, i) ==
    IF ~AtLineStart(t, i) THEN 0
    ELSE IF MatchLitI(t, i, <<"t","a","b","l","e">>) /\ CaptionTail(t, i + 5) > 0
         THEN CaptionTail(t, i + 5)
    ELSE IF MatchLitI(t, i, <<"f","i","g","u","r","e">>)
         THEN CaptionTail(t, i + 6)
    ELSE 0

RECURSIVE CaptionSub(_, _)
CaptionSub(t, i) ==
    LET S == {j \in i..Len(t) : CaptionEnd(t, j) > 0}
    IN  IF S = {} THEN SubSeq(t, i, Len(t))
        ELSE SubSeq(t, i, Min(S) - 1)
             \o CaptionSub(t, CaptionEnd(t, Min(S)))

\* (references|bibliography|appendix)
Headings == { <<"r","e","f","e","r","e","n","c","e","s">>,
              <<"b","i","b","l","i","o","g","r","a","p","h","y">>,
              <<"a","p","p","e","n","d","i","x">> }

\* (?i)\n\s*(references|bibliography|appendix)\s*\n matches at i
CutoffAt(t, i) ==
    /\ t[i] = "\n"
    /\ LET q == SkipSpace(t, i + 1)
       IN  \E h \in Headings :
             /\ MatchLitI(t, q, h)
             /\ \E n \in (q + Len(h))..(SkipSpace(t, q + Len(h)) - 1) : t[n] = "\n"

\* the start of the last match instead of the first
CutoffStartLast(t) ==
    LET S == {i \in 1..Len(t) : CutoffAt(t, i)}
    IN  IF S = {} THEN 0 ELSE CHOOSE x \in S : \A y \in S : y <= x

\* re.search(...).start(), as an index from 1; 0 when there is no match
CutoffStart(t) ==
    LET S == {i \in 1..Len(t) : CutoffAt(t, i)} IN IF S = {} THEN 0 ELSE Min(S)

Cutoff(t) == IF CutoffStart(t) > 0 THEN SubSeq(t, 1, CutoffStart(t) - 1) ELSE t

\* steps 1 to 5 of clean: the text the cutoff is searched in
PreCutoff(t) ==
    CaptionSub(MarkupSub(ImageSub(NoiseSub(LinkSub(FrontmatterSub(t, 1), 1), 1), 1)), 1)

clean(t) == strip(Cutoff(PreCutoff(t)))

(***************************************************************************)
(* summarize(text, max_len): segmentation, ranking, the selection walk.    *)
(***************************************************************************)
DefaultMaxLen == 450
MinSentenceLen == 20
CommonLimit == 20
LongWordLen == 4
PrefixLen == 5

Take(s, n) == SubSeq(s, 1, IF n < Len(s) THEN n ELSE Len(s))

IsTerminator(c) == c \in {".", "!", "?"}

\* re.split on runs of terminators, from index i on
RECURSIVE split(_, _)
split(t, i) ==
    LET S == {j \in i..Len(t) : IsTerminator(t[j])}
    IN  IF S = {} THEN << SubSeq(t, i, Len(t)) >>
        ELSE LET j == Min(S)
                 N == {k \in j..Len(t) : ~IsTerminator(t[k])}
                 e == IF N = {} THEN Len(t) + 1 ELSE Min(N)
             IN  << SubSeq(t, i, j - 1) >> \o split(t, e)

\* the length filter off by one
IsSentenceFrom20(s) == Len(s) >= MinSentenceLen

\* keeps a stripped fragment
IsSentence(s) == Len(s) > MinSentenceLen

\* [s.strip() for s in re.split(...) if len(s.strip()) > 20]
Segment(t) ==
    LET f == split(t, 1)
    IN  SelectSeq(list([k \in 1..Len(f) |-> strip(f[k])]), IsSentence)

\* 1, 2, ..., n
Indices(n) == list([k \in 1..n |-> k])

\* re.findall of the runs of word characters: a run starts at every word
\* character that follows none, and goes on to the last word character
findall(t) ==
    LET b == SelectSeq(Indices(Len(t)),
                       LAMBDA j : IsWord(t[j]) /\ (j = 1 \/ ~IsWord(t[j - 1])))
        e == SelectSeq(Indices(Len(t)),
                       LAMBDA j : IsWord(t[j]) /\ (j = Len(t) \/ ~IsWord(t[j + 1])))
    IN  list([k \in 1..Len(b) |-> SubSeq(t, b[k], e[k])])

\* Counter(ws)[w]
Count(ws, w) == Cardinality({k \in 1..Len(ws) : ws[k] = w})

\* the keys of Counter(ws), in the order of their first insertion
Keys(ws) ==
    LET f == SelectSeq(Indices(Len(ws)), LAMBDA k : \A j \in 1..(k - 1) : ws[j] # ws[k])
    IN  list([k \in 1..Len(f) |-> ws[f[k]]])

\* Counter(ws).items(): the (word, count) pairs in insertion order
Items(ws) ==
    LET ks == Keys(ws) IN list([k \in 1..Len(ks) |-> <<ks[k], Count(ws, ks[k])>>])

\* one step of the stable sort by count, largest first: the pair p goes behind
\* every pair whose count is not smaller than its own
InsertByCount(ps, p) ==
    LET S == {k \in 1..Len(ps) : ps[k][2] < p[2]}
        at == IF S = {} THEN Len(ps) + 1 ELSE Min(S)
    IN  SubSeq(ps, 1, at - 1) \o <<p>> \o SubSeq(ps, at, Len(ps))

RECURSIVE SortByCount(_)
SortByCount(ps) ==
    IF ps = <<>> THEN <<>>
    ELSE InsertByCount(SortByCount(SubSeq(ps, 1, Len(ps) - 1)), ps[Len(ps)])

\* Counter(ws).most_common(n): (word, count) pairs
most_common(ws, n) == Take(SortByCount(Items(ws)), n)

\* [w for w, _ in pairs]
Firsts(ps) == list([k \in 1..Len(ps) |-> ps[k][1]])

\* {w for w, c in Counter(words).most_common(20) if len(w) > 4}
common(t) ==
    {w \in Range(Firsts(most_common(findall(lower(t)), CommonLimit))) : Len(w) > LongWordLen}

\* p in s
Contains(s, p) == \E k \in 1..(Len(s) - Len(p) + 1) : MatchLit(s, k, p)

\* the orders in which a set can be iterated
Orders(S) ==
    {it \in [1..Cardinality(S) -> S] : \A a, b \in 1..Cardinality(S) : a # b => it[a] # it[b]}

\* a count that ends at the first word the sentence does not contain
RECURSIVE KeywordScoreUntilMiss(_, _)
KeywordScoreUntilMiss(it, s) ==
    IF it = <<>> \/ ~Contains(lower(s), Take(Head(it), PrefixLen)) THEN 0
    ELSE 1 + KeywordScoreUntilMiss(Tail(it), s)

\* sum(w[:5] in s.lower() for w in common), the set iterated in the order it
RECURSIVE KeywordScore(_, _)
KeywordScore(it, s) ==
    IF it = <<>> THEN 0
    ELSE (IF Contains(lower(s), Take(Head(it), PrefixLen)) THEN 1 ELSE 0)
         + KeywordScore(Tail(it), s)

\* a < b for two strings: by code point at the first difference, else by length
StrLess(a, b) ==
    LET n == IF Len(a) < Len(b) THEN Len(a) ELSE Len(b)
        D == {k \in 1..n : a[k] # b[k]}
    IN  IF D = {} THEN Len(a) < Len(b)
        ELSE CodePoint(a[Min(D)]) < CodePoint(b[Min(D)])

\* p < q for two (score, sentence) tuples
PairLess(p, q) == p[1] < q[1] \/ (p[1] = q[1] /\ StrLess(p[2], q[2]))

\* one step of the stable sort, largest first
InsertDesc(ps, p) ==
    LET S == {k \in 1..Len(ps) : PairLess(ps[k], p)}
        at == IF S = {} THEN Len(ps) + 1 ELSE Min(S)
    IN  SubSeq(ps, 1, at - 1) \o <<p>> \o SubSeq(ps, at, Len(ps))

\* sorted(ps, reverse=True)
RECURSIVE sorted_reverse(_)
sorted_reverse(ps) ==
    IF ps = <<>> THEN <<>>
    ELSE InsertDesc(sorted_reverse(SubSeq(ps, 1, Len(ps) - 1)), ps[Len(ps)])

\* the comparison of the walk, made strict
FitsStrictly(u, s, m) == u + Len(s) < m

\* used + len(s) <= max_len
Fits(u, s, m) == u + Len(s) <= m

\* " ".join(result)
RECURSIVE join(_)
join(r) ==
    IF r = <<>> THEN <<>>
    ELSE IF Len(r) = 1 THEN r[1]
    ELSE r[1] \o <<" ">> \o join(Tail(r))

\* the fallback without its marker
FallbackBare(t, m) == Take(t, m)

\* text[:max_len] + the ellipsis
Fallback(t, m) == Take(t, m) \o <<Ellipsis>>

\* the message returned when no candidate sentence is left
Nothing ==
    <<"N","o","t","h","i","n","g"," ","t","o"," ","s","u","m","m","a","r","i",
      "z","e"," ","a","f","t","e","r"," ","c","l","e","a","n","i","n","g",".">>

(***************************************************************************)
(* tag(text, top)                                                          *)
(***************************************************************************)
DefaultTop == 8
MinTagLen == 3

stop == {
    <<"t","h","e">>,
    <<"a","n","d">>,
    <<"f","o","r">>,
    <<"w","i","t","h">>,
    <<"t","h","i","s">>,
    <<"t","h","a","t">>,
    <<"f","r","o","m">>,
    <<"w","e","r","e">>,
    <<"b","e","e","n">>,
    <<"h","a","v","e">>,
    <<"u","s","i","n","g">>,
    <<"u","s","e","d">>,
    <<"w","h","i","c","h">>,
    <<"t","h","e","i","r">>,
    <<"t","h","e","y">>,
    <<"w","i","l","l">>,
    <<"w","o","u","l","d">>,
    <<"t","h","e","r","e">>,
    <<"t","h","e","s","e">>,
    <<"a","b","o","u","t">>,
    <<"w","h","e","n">>,
    <<"w","h","a","t">>,
    <<"w","h","e","r","e">>,
    <<"i","s">>,
    <<"a","r","e">>,
    <<"w","a","s">>,
    <<"n","o","t">>,
    <<"b","u","t">>,
    <<"a","l","l">>,
    <<"i","n","t","o">>,
    <<"c","a","n">>,
    <<"h","a","s">>,
    <<"m","o","r","e">>,
    <<"o","n","e">>,
    <<"i","t","s">>,
    <<"o","u","t">>,
    <<"a","l","s","o">>,
    <<"t","h","a","n">>,
    <<"o","t","h","e","r">>,
    <<"s","o","m","e">>,
    <<"v","e","r","y">>,
    <<"o","n","l","y">>,
    <<"t","i","m","e">>,
    <<"j","u","s","t">>,
    <<"e","v","e","n">>,
    <<"m","o","s","t">>,
    <<"l","i","k","e">>,
    <<"m","a","y">>,
    <<"s","u","c","h">>,
    <<"e","a","c","h">>,
    <<"n","e","w">>,
    <<"b","a","s","e","d">>,
    <<"o","u","r">>,
    <<"r","e","s","u","l","t","s">>,
    <<"s","t","u","d","y">>,
    <<"m","e","t","h","o","d">>,
    <<"a","p","p","r","o","a","c","h">>,
    <<"p","r","o","p","o","s","e","d">>
}
\* the length filter off by one
IsCandidateFrom3(w) == w \notin stop /\ Len(w) >= MinTagLen

IsCandidate(w) == w \notin stop /\ Len(w) > MinTagLen

tag(t, n) == Firsts(most_common(SelectSeq(findall(lower(t)), IsCandidate), n))

(***************************************************************************)
(* The metrics of the run.                                                 *)
(***************************************************************************)
\* 1000 * n / d rounded to the nearest integer, a tie to the even one
Tenths(n, d) ==
    LET q == (1000 * n) \div d
        r == (1000 * n) % d
    IN  IF 2 * r > d \/ (2 * r = d /\ q % 2 = 1) THEN q + 1 ELSE q

\* str(n) for n >= 0
RECURSIVE Digits(_)
Digits(n) ==
    IF n < 10 THEN << DigitSeq[n + 1] >>
    ELSE Digits(n \div 10) \o << DigitSeq[(n % 10) + 1] >>

\* the format .0% of n / d
PercentNoDecimal(n, d) == Digits((Tenths(n, d) + 5) \div 10) \o <<"%">>

\* the format .1% of n / d
Percent(n, d) ==
    Digits(Tenths(n, d) \div 10) \o <<".">> \o Digits(Tenths(n, d) % 10) \o <<"%">>

\* len(summary) / max(len(text), 1), formatted
Compression(s, t) == Percent(Len(s), IF Len(t) > 1 THEN Len(t) ELSE 1)

(***************************************************************************)
(* The inputs.  A document is a concatenation of at most MaxPieces pieces; *)
(* the pieces carry the constructs clean and summarize look for.           *)
(***************************************************************************)
MaxPieces == 2
MaxTop == 2

SentenceA ==
    <<"N","e","u","r","a","l"," ","n","e","t","s"," ","l","e","a","r","n"," ",
      "f","r","o","m"," ","d","a","t","a","."," ">>
SentenceB ==
    <<"D","e","e","p"," ","n","e","u","r","a","l"," ","n","e","t","s"," ","c",
      "a","n"," ","l","e","a","r","n","!"," ","T","i","n","y"," ","n","e","t",
      "s"," ","d","o"," ","w","e","l","l"," ","o","n"," ","i","t","."," ">>
Fragment20 ==
    <<"S","u","c","h"," ","n","e","t","s"," ","l","e","a","r","n"," ","f","a",
      "s","t","?">>
Appendix ==
    <<"N","o","t","e","s",".","\n","A","p","p","e","n","d","i","x","\n","E",
      "n","d">>
HeadingOnly ==
    <<"R","e","f","e","r","e","n","c","e","s">>
Image ==
    <<"!","[","p","l","o","t","]","(","a",".","p","n","g",")"," ">>
Link ==
    <<"[","t","h","i","s","]","(","h","t","t","p",":","/","/","x",".","y",")",
      " ">>
Caption ==
    <<" ","T","a","b","l","e"," ","1"," ","n","e","t","s","\n">>
Rule ==
    <<"-","-","-","\n">>
Noisy ==
    <<"*","s","e","e","*"," ","h","t","t","p","s",":","/","/","x",".","y"," ">>

Pieces == {SentenceA, SentenceB, Fragment20, Appendix, HeadingOnly, Image,
           Link, Caption, Rule, Noisy}

RECURSIVE Concat(_)
Concat(ps) == IF ps = <<>> THEN <<>> ELSE Head(ps) \o Concat(Tail(ps))

Documents == {Concat(ps) : ps \in UNION {[1..n -> Pieces] : n \in 0..MaxPieces}}

\* the budgets summarize is called with: the default, and small ones that
\* no sentence, one sentence or exactly two sentences of the pieces fit
Budgets == {0, 20, 50, 53, DefaultMaxLen}

Tops == 0..MaxTop \cup {DefaultTop}

\* the scores an embedding model may give a sentence
EmbeddingScores == {0, 1}

(***************************************************************************)
(* The run: summarize(text, max_len), tag(summary + text, top), metrics.   *)
(***************************************************************************)
VARIABLES model, raw, max_len, pc, text, sentences, ranked, result, used, pos,
          summary, top, tags, metrics

vars == <<model, raw, max_len, pc, text, sentences, ranked, result, used, pos,
          summary, top, tags, metrics>>

Init ==
    /\ model \in BOOLEAN
    /\ raw \in Documents
    /\ max_len \in Budgets
    /\ pc = "clean"
    /\ text = <<>>
    /\ sentences = <<>>
    /\ ranked = <<>>
    /\ result = <<>>
    /\ used = 0
    /\ pos = 1
    /\ summary = <<>>
    /\ top = DefaultTop
    /\ tags = <<>>
    /\ metrics = [original_words |-> 0, summary_words |-> 0, compression |-> <<>>]

\* text = clean(text)
Clean ==
    /\ pc = "clean"
    /\ text' = clean(raw)
    /\ pc' = "segment"
    /\ UNCHANGED <<model, raw, max_len, sentences, ranked, result, used, pos,
                   summary, top, tags, metrics>>

\* the candidate sentences; without any, summarize returns at once
SegmentText ==
    /\ pc = "segment"
    /\ sentences' = Segment(text)
    /\ IF sentences' = <<>>
       THEN summary' = Nothing /\ pc' = "tag"
       ELSE summary' = summary /\ pc' = "rank"
    /\ UNCHANGED <<model, raw, max_len, text, ranked, result, used, pos, top,
                   tags, metrics>>

\* semantic mode: the scores are what the embedding model answers
RankEmbedding ==
    /\ pc = "rank"
    /\ model
    /\ \E scores \in [1..Len(sentences) -> EmbeddingScores] :
         ranked' = sorted_reverse(list([k \in 1..Len(sentences) |->
                                          <<scores[k], sentences[k]>>]))
    /\ pc' = "walk"
    /\ UNCHANGED <<model, raw, max_len, text, sentences, result, used, pos,
                   summary, top, tags, metrics>>

\* keyword mode: the set common is iterated in whatever order the run gives it
RankKeyword ==
    /\ pc = "rank"
    /\ ~model
    /\ \E it \in Orders(common(text)) :
         ranked' = sorted_reverse(list([k \in 1..Len(sentences) |->
                              <<KeywordScore(it, sentences[k]), sentences[k]>>]))
    /\ pc' = "walk"
    /\ UNCHANGED <<model, raw, max_len, text, sentences, result, used, pos,
                   summary, top, tags, metrics>>

\* the loop body, if branch
WalkInclude ==
    /\ pc = "walk"
    /\ pos <= Len(ranked)
    /\ Fits(used, ranked[pos][2], max_len)
    /\ result' = Append(result, ranked[pos][2])
    /\ used' = used + Len(ranked[pos][2])
    /\ pos' = pos + 1
    /\ UNCHANGED <<model, raw, max_len, pc, text, sentences, ranked, summary,
                   top, tags, metrics>>

\* the loop body, else branch
WalkBreak ==
    /\ pc = "walk"
    /\ pos <= Len(ranked)
    /\ ~Fits(used, ranked[pos][2], max_len)
    /\ pc' = "return"
    /\ UNCHANGED <<model, raw, max_len, text, sentences, ranked, result, used,
                   pos, summary, top, tags, metrics>>

\* the loop runs out of sentences
WalkEnd ==
    /\ pc = "walk"
    /\ pos > Len(ranked)
    /\ pc' = "return"
    /\ UNCHANGED <<model, raw, max_len, text, sentences, ranked, result, used,
                   pos, summary, top, tags, metrics>>

\* return " ".join(result) or text[:max_len] + the ellipsis
Return ==
    /\ pc = "return"
    /\ summary' = IF join(result) # <<>> THEN join(result) ELSE Fallback(text, max_len)
    /\ pc' = "tag"
    /\ UNCHANGED <<model, raw, max_len, text, sentences, ranked, result, used,
                   pos, top, tags, metrics>>

\* tags = tag(summary + text)
Tag ==
    /\ pc = "tag"
    /\ \E n \in Tops :
         /\ top' = n
         /\ tags' = tag(summary \o raw, n)
    /\ pc' = "metrics"
    /\ UNCHANGED <<model, raw, max_len, text, sentences, ranked, result, used,
                   pos, summary, metrics>>

\* the metrics of the result record
Metrics ==
    /\ pc = "metrics"
    /\ metrics' = [original_words |-> Len(findall(raw)),
                   summary_words  |-> Len(findall(summary)),
                   compression    |-> Compression(summary, raw)]
    /\ pc' = "done"
    /\ UNCHANGED <<model, raw, max_len, text, sentences, ranked, result, used,
                   pos, summary, top, tags>>

Next ==
    \/ Clean
    \/ SegmentText
    \/ RankEmbedding
    \/ RankKeyword
    \/ WalkInclude
    \/ WalkBreak
    \/ WalkEnd
    \/ Return
    \/ Tag
    \/ Metrics

Spec == Init /\ [][Next]_vars

(***************************************************************************)
(* The selection walk.                                                     *)
(***************************************************************************)
AfterSummarize == pc \in {"tag", "metrics", "done"}
AfterRank == pc \in {"walk", "return"} \/ (AfterSummarize /\ sentences # <<>>)

\* the summed length of the first k ranked sentences
RECURSIVE Cumulative(_, _)
Cumulative(rk, k) == IF k = 0 THEN 0 ELSE Cumulative(rk, k - 1) + Len(rk[k][2])

\* C1: a summary joined from selected sentences is at most max_len
\* characters long
SummaryWithinBudget ==
    (AfterSummarize /\ result # <<>>) => Len(summary) <= max_len

\* C2: the walk selects the longest prefix of the score-descending ranking
\* whose summed sentence length is at most max_len: while it runs the chosen
\* sentences are the first pos - 1 ranked ones and their summed length is at
\* most max_len, and when it has ended no longer prefix fits
LongestPrefixSelected ==
    AfterRank =>
        /\ \A k \in 1..(Len(ranked) - 1) : ranked[k][1] >= ranked[k + 1][1]
        /\ Len(result) = pos - 1
        /\ Len(result) <= Len(ranked)
        /\ \A k \in 1..Len(result) : result[k] = ranked[k][2]
        /\ used = Cumulative(ranked, Len(result))
        /\ used <= max_len
        /\ pc # "walk" =>
             \A k \in 0..Len(ranked) :
                 Cumulative(ranked, k) <= max_len => k <= Len(result)

\* the walk stopped at a sentence that does not fit although a later,
\* shorter one would have
StoppedBeforeShorterSentence ==
    /\ pc = "return"
    /\ Len(result) >= 1
    /\ \E j \in (Len(result) + 2)..Len(ranked) : used + Len(ranked[j][2]) <= max_len

\* C3: when there are candidate sentences and the first ranked one alone
\* exceeds max_len, the summary is the first max_len characters of the clean
\* text followed by the ellipsis; the summary is never empty
FallbackWhenNothingFits ==
    AfterSummarize =>
        /\ summary # <<>>
        /\ (sentences # <<>> /\ Len(ranked[1][2]) > max_len) =>
             /\ Len(summary) = max_len + 1
             /\ \A k \in 1..max_len : summary[k] = text[k]
             /\ summary[max_len + 1] = Ellipsis

NothingFitted ==
    /\ pc = "done"
    /\ sentences # <<>>
    /\ result = <<>>
    /\ max_len > 0

(***************************************************************************)
(* The empty document.                                                     *)
(***************************************************************************)
\* C4: for the empty document the summary is the nothing-to-summarize
\* message, original_words is 0 and compression is 0.0%
EmptyDocumentCompressionZero ==
    (pc = "done" /\ raw = <<>>) =>
        /\ summary = Nothing
        /\ metrics.original_words = 0
        /\ metrics.compression = <<"0", ".", "0", "%">>

\* C4, amended: for the empty document the summary is the message,
\* original_words is 0, and compression is the 36 characters of the message
\* over the floor 1 of the denominator: 3600.0%
EmptyDocumentCompression ==
    (pc = "done" /\ raw = <<>>) =>
        /\ summary = Nothing
        /\ metrics.original_words = 0
        /\ metrics.compression = <<"3", "6", "0", "0", ".", "0", "%">>

EmptyDocumentDone == pc = "done" /\ raw = <<>>

(***************************************************************************)
(* tag                                                                     *)
(***************************************************************************)
\* the distinct tokens of ws that tag may return, in the order of their
\* first occurrence
QualifyingInOrder(ws) ==
    LET f == SelectSeq(Indices(Len(ws)),
                       LAMBDA k : /\ ws[k] \notin stop
                                  /\ Len(ws[k]) > 3
                                  /\ \A j \in 1..(k - 1) : ws[j] # ws[k])
    IN  list([k \in 1..Len(f) |-> ws[f[k]]])

\* how often each token of q stands in ws
OccurrencesOf(q, ws) ==
    list([k \in 1..Len(q) |-> Cardinality({j \in 1..Len(ws) : ws[j] = q[k]})])

\* where each tag stands in q; 0 for a tag that is not in q
PlacesOf(tg, q) ==
    list([a \in 1..Len(tg) |->
            IF \E k \in 1..Len(q) : q[k] = tg[a]
            THEN CHOOSE k \in 1..Len(q) : q[k] = tg[a]
            ELSE 0])

\* C5: the tags are at most top distinct qualifying lower-case tokens, in
\* the order of non-increasing count, equal counts in the order of first
\* occurrence, and no qualifying token left out is more frequent than a tag
TagsRanked ==
    pc = "done" =>
        LET ws == findall(lower(summary \o raw))
            q  == QualifyingInOrder(ws)
            n  == OccurrencesOf(q, ws)
            at == PlacesOf(tags, q)
        IN  /\ Len(tags) <= top
            /\ \A a \in 1..Len(tags) :
                 /\ at[a] > 0
                 /\ \A k \in 1..Len(tags[a]) : ~IsUpper(tags[a][k])
            /\ \A a, b \in 1..Len(tags) :
                 a < b =>
                   /\ tags[a] # tags[b]
                   /\ \/ n[at[a]] > n[at[b]]
                      \/ n[at[a]] = n[at[b]] /\ at[a] < at[b]
            /\ \A k \in 1..Len(q) :
                 (\A a \in 1..Len(tags) : at[a] # k) =>
                     \A a \in 1..Len(tags) : n[k] <= n[at[a]]

\* top tags were returned, two of them equally frequent, and a qualifying
\* token was left out
TagsTruncatedWithTie ==
    /\ pc = "done"
    /\ top >= 2
    /\ Len(tags) = top
    /\ LET ws == findall(lower(summary \o raw))
           q  == QualifyingInOrder(ws)
           n  == OccurrencesOf(q, ws)
           at == PlacesOf(tags, q)
       IN  /\ Len(q) > Len(tags)
           /\ \E a, b \in 1..Len(tags) : a < b /\ n[at[a]] = n[at[b]]

(***************************************************************************)
(* The ranking.                                                            *)
(***************************************************************************)
\* C6: the ranking is a function of the input alone: it holds the candidate
\* sentences, each as often as it is a candidate; in keyword mode the score
\* of a sentence is the number of common words whose first five characters
\* it contains, whatever the order the set was iterated in; scores do not
\* increase along the ranking, and sentences of equal score stand in
\* descending string order
RankingDeterministic ==
    pc = "walk" =>
        LET cm == common(text)
        IN  /\ Len(ranked) = Len(sentences)
            /\ \A k \in 1..Len(sentences) :
                 Cardinality({j \in 1..Len(ranked) : ranked[j][2] = sentences[k]})
                   = Cardinality({j \in 1..Len(sentences) : sentences[j] = sentences[k]})
            /\ ~model =>
                 \A k \in 1..Len(ranked) :
                    ranked[k][1] = Cardinality({w \in cm :
                                       Contains(lower(ranked[k][2]), Take(w, 5))})
            /\ \A a, b \in 1..Len(ranked) :
                 a < b =>
                   \/ ranked[a][1] > ranked[b][1]
                   \/ /\ ranked[a][1] = ranked[b][1]
                      /\ ~StrLess(ranked[a][2], ranked[b][2])

\* keyword mode ranked two different sentences of equal score, the set of
\* common words having more than one iteration order
TieRankedInKeywordMode ==
    /\ pc = "walk"
    /\ ~model
    /\ Cardinality(common(text)) >= 2
    /\ \E a \in 1..(Len(ranked) - 1) :
         /\ ranked[a][1] = ranked[a + 1][1]
         /\ ranked[a][1] > 0
         /\ ranked[a][2] # ranked[a + 1][2]

(***************************************************************************)
(* clean                                                                   *)
(***************************************************************************)
HasFrontmatter(t) == \E i \in 1..Len(t) : FrontmatterEnd(t, i) > 0
HasLink(t) == \E i \in 1..Len(t) : LinkEnd(t, i) > 0
HasNoise(t) == \E i \in 1..Len(t) : NoiseEnd(t, i) > 0
HasImage(t) == \E i \in 1..Len(t) : ImageEnd(t, i) > 0
HasMarkup(t) == \E i \in 1..Len(t) : IsMarkup(t[i])
HasCaption(t) == \E i \in 1..Len(t) : CaptionEnd(t, i) > 0

\* free of frontmatter blocks, markdown links and citation noise
NoiseFree(t) == ~HasFrontmatter(t) /\ ~HasLink(t) /\ ~HasNoise(t)

\* free of everything steps 1 to 5 of clean remove
Settled(t) == NoiseFree(t) /\ ~HasImage(t) /\ ~HasMarkup(t) /\ ~HasCaption(t)

HeadingLines(t) ==
    {i \in 1..Len(t) :
        /\ AtLineStart(t, i)
        /\ \E h \in Headings :
              /\ MatchLitI(t, i, h)
              /\ (i + Len(h) > Len(t) \/ t[i + Len(h)] = "\n")}

\* C8: when the text, after the earlier steps, has a line that is nothing
\* but a heading word, clean returns the text before the first such line,
\* trimmed, wherever the line stands
CutAtFirstHeadingLine ==
    (pc = "segment" /\ HeadingLines(PreCutoff(raw)) # {}) =>
        text = strip(SubSeq(PreCutoff(raw), 1, Min(HeadingLines(PreCutoff(raw))) - 1))

\* the alt text of the image that starts at i
ImageAlt(t, i) == SubSeq(t, i + 2, LinkLabelEnd(t, i + 1) - 1)
\* its target
ImageTarget(t, i) == SubSeq(t, LinkLabelEnd(t, i + 1) + 2, LinkEnd(t, i + 1) - 2)
\* the number of places at which p stands in t
Places(t, p) == Cardinality({k \in 1..Len(t) : MatchLit(t, k, p)})

\* C10: of an image with non-empty alt text and target, neither the alt
\* text nor the target is left in the clean text (an alt text or target that
\* stands in the input a second time is not counted)
ImageRemovedEntirely ==
    pc = "segment" =>
        \A i \in 1..Len(raw) :
            (raw[i] = "!" /\ ImageEnd(raw, i) > 0 /\ LinkEnd(raw, i + 1) > 0) =>
                /\ Places(raw, ImageAlt(raw, i)) = 1 => ~Contains(text, ImageAlt(raw, i))
                /\ Places(raw, ImageTarget(raw, i)) = 1 => ~Contains(text, ImageTarget(raw, i))

(***************************************************************************)
(* Segmentation.                                                           *)
(***************************************************************************)
\* the indices at which a non-empty fragment of t starts
FragmentStarts(t) ==
    {a \in 1..Len(t) : ~IsTerminator(t[a]) /\ (a = 1 \/ IsTerminator(t[a - 1]))}

\* the fragment that starts at a, trimmed
FragmentAt(t, a) ==
    LET T == {b \in a..Len(t) : IsTerminator(t[b])}
    IN  strip(SubSeq(t, a, IF T = {} THEN Len(t) ELSE Min(T) - 1))

\* the starts of the fragments that are kept
KeptStarts(t) == {a \in FragmentStarts(t) : Len(FragmentAt(t, a)) > 20}

\* the a of S with k - 1 smaller ones
Nth(S, k) == CHOOSE a \in S : Cardinality({b \in S : b < a}) = k - 1

\* C9: the candidate sentences are the trimmed fragments between runs of
\* terminators that are longer than 20 characters, in source order; each is
\* trimmed, free of terminators and a substring of the clean text; an empty
\* clean text has none, and the summary is then the message
SegmentationExact ==
    pc \in {"rank", "tag"} =>
        /\ Len(sentences) = Cardinality(KeptStarts(text))
        /\ \A k \in 1..Len(sentences) :
             /\ sentences[k] = FragmentAt(text, Nth(KeptStarts(text), k))
             /\ Contains(text, sentences[k])
             /\ ~IsSpace(sentences[k][1])
             /\ ~IsSpace(sentences[k][Len(sentences[k])])
             /\ \A j \in 1..Len(sentences[k]) : ~IsTerminator(sentences[k][j])
        /\ text = <<>> => sentences = <<>>
        /\ (pc = "tag" /\ sentences = <<>>) => summary = Nothing

\* two sentences were kept and a fragment of exactly 20 characters dropped
FragmentOfTwentyDropped ==
    /\ pc = "rank"
    /\ Len(sentences) >= 2
    /\ \E a \in FragmentStarts(text) : Len(FragmentAt(text, a)) = 20

=============================================================================
